---- MODULE Spec2Model ----
(***************************************************************************)
(* Notion -> Google Calendar one-way sync (src/notion_calendar_sync.py).   *)
(*                                                                         *)
(* The model follows run_sync: a run sets the process-wide DRY_RUN flag,   *)
(* queries the pages and reconciles them one after the other.  Every call  *)
(* to a collaborator (calendar insert, calendar update, Notion page        *)
(* update) is one step whose outcome is drawn from the outcomes the        *)
(* collaborator can produce.  The fields of a page the program only reads  *)
(* (title, Date, Day of the Week, Time Slot, Frequency) are inputs drawn   *)
(* when sync_page extracts them; the one field the program writes, Google  *)
(* Event ID, is state (store) and survives from one run to the next.       *)
(*                                                                         *)
(* Dates are Python's proleptic Gregorian ordinals (date.toordinal()), a   *)
(* datetime is [ord, tod] with tod the time of day in minutes.             *)
(***************************************************************************)
EXTENDS Integers, Sequences, FiniteSets, TLC

(***************************************************************************)
(* Bounds of the model.                                                    *)
(***************************************************************************)
\* calendar year of the runs
Year == 2024
\* datetime.now() falls on one of the last MaxDaysLeft + 1 days of Year
MaxDaysLeft == 4
\* pages returned by one query of the database
MaxPages == 2
\* Spec: runs of the program (run_sync invocations)
MaxRuns == 1
\* SpecTwice: runs of the program on the same record
MaxRunsTwice == 2
\* collaborator calls that fail with an error while one page is synced
MaxErrors == 2
\* SpecRecurring: datetime.now() falls in one of the last MaxMonthsBack + 1
\* months of Year (on one of the last MaxDaysLeft + 1 days of the month)
MaxMonthsBack == 1
\* SpecParse: length of the time slot strings
MaxSlotLen == 5
\* SpecSeries: datetime.now() falls in one of the last MaxSeriesMonths + 1
\* months of Year (on one of the last MaxDaysLeft + 1 days of the month)
MaxSeriesMonths == 2
\* elements of the "title" list of a page's title property (SpecTitle)
MaxTitleLen == 2
\* SpecQuery: records in one answer of notion.databases.query
MaxPageSize == 2

(***************************************************************************)
(* Python values.                                                          *)
(***************************************************************************)
\* None where a string is expected (extract_frequency)
PyNone == "<None>"
\* None where an int is expected (DAY_MAP.get)
NoneInt == 0 - 1
\* None where an event id is expected (get_page_event_id)
NoId == 0
\* the id create_calendar_event hands back under DRY_RUN
DryRunId == 0 - 2

Min(a, b) == IF a <= b THEN a ELSE b

(***************************************************************************)
(* datetime / dateutil arithmetic, as the library computes it.             *)
(***************************************************************************)
IsLeap(y) == (y % 4 = 0) /\ ((y % 100 # 0) \/ (y % 400 = 0))

DaysInMonth(y, m) ==
    IF m = 2 THEN (IF IsLeap(y) THEN 29 ELSE 28)
    ELSE IF m \in {4, 6, 9, 11} THEN 30 ELSE 31

\* days before January 1st of year y
DaysBeforeYear(y) ==
    365 * (y - 1) + ((y - 1) \div 4) - ((y - 1) \div 100) + ((y - 1) \div 400)

RECURSIVE DaysBeforeMonth(_, _)
DaysBeforeMonth(y, m) ==
    IF m = 1 THEN 0 ELSE DaysBeforeMonth(y, m - 1) + DaysInMonth(y, m - 1)

\* date(y, m, d).toordinal()
Ymd2Ord(y, m, d) == DaysBeforeYear(y) + DaysBeforeMonth(y, m) + d

\* date.fromordinal(n).year, for the years around Year
OrdYear(n) ==
    CHOOSE y \in (Year - 1)..(Year + 2) :
        DaysBeforeYear(y) < n /\ n <= DaysBeforeYear(y + 1)

\* date.fromordinal(n).month
OrdMonth(n) ==
    LET y == OrdYear(n)
    IN  CHOOSE m \in 1..12 :
            /\ Ymd2Ord(y, m, 1) <= n
            /\ n <= Ymd2Ord(y, m, DaysInMonth(y, m))

\* date.fromordinal(n).day
OrdDay(n) == n - Ymd2Ord(OrdYear(n), OrdMonth(n), 1) + 1

\* date.weekday(): Monday = 0 .. Sunday = 6
Weekday(n) == (n + 6) % 7

\* a datetime value
DateTime(n, t) == [ord |-> n, tod |-> t]

\* datetime <= datetime
DtLeq(a, b) == a.ord < b.ord \/ (a.ord = b.ord /\ a.tod <= b.tod)

\* current + timedelta(days=k)
AddDays(dt, k) == DateTime(dt.ord + k, dt.tod)

\* current + relativedelta(months=k): same day of month, clamped to the
\* length of the target month
AddMonths(dt, k) ==
    LET y  == OrdYear(dt.ord)
        m0 == OrdMonth(dt.ord) + k
        y2 == y + ((m0 - 1) \div 12)
        m2 == ((m0 - 1) % 12) + 1
        d2 == Min(OrdDay(dt.ord), DaysInMonth(y2, m2))
    IN  DateTime(Ymd2Ord(y2, m2, d2), dt.tod)

\* current.replace(hour=hour, minute=minute, second=0, microsecond=0)
ReplaceTime(dt, hour, minute) == DateTime(dt.ord, hour * 60 + minute)

\* datetime(today.year, 12, 31)
EndOfYear(dt) == DateTime(Ymd2Ord(OrdYear(dt.ord), 12, 31), 0)

(***************************************************************************)
(* Module constants of the program.                                        *)
(***************************************************************************)
\* DAY_MAP numbered from Sunday
DAY_MAP_SundayFirst ==
    [d \in {"Monday", "Tuesday", "Wednesday", "Thursday", "Friday",
            "Saturday", "Sunday"} |->
        CASE d = "Sunday"    -> 0
          [] d = "Monday"    -> 1
          [] d = "Tuesday"   -> 2
          [] d = "Wednesday" -> 3
          [] d = "Thursday"  -> 4
          [] d = "Friday"    -> 5
          [] d = "Saturday"  -> 6]

DAY_MAP ==
    [d \in {"Monday", "Tuesday", "Wednesday", "Thursday", "Friday",
            "Saturday", "Sunday"} |->
        CASE d = "Monday"    -> 0
          [] d = "Tuesday"   -> 1
          [] d = "Wednesday" -> 2
          [] d = "Thursday"  -> 3
          [] d = "Friday"    -> 4
          [] d = "Saturday"  -> 5
          [] d = "Sunday"    -> 6]

\* DAY_MAP.get(day_name)
DayMapGet(name) == IF name \in DOMAIN DAY_MAP THEN DAY_MAP[name] ELSE NoneInt

\* day.split('-')[-1] if '-' in day else day.  A day label is held as the
\* sequence of its '-'-separated pieces: <<"1", "Monday">> is "1-Monday".
DayName(day) == IF Len(day) > 1 THEN day[Len(day)] ELSE day[1]

(***************************************************************************)
(* parse_time_slot.  A time slot is a sequence of characters.              *)
(***************************************************************************)
\* A character is a string: an ASCII character is itself, another one is
\* named by its code point.
Digits == {"0", "1", "2", "3", "4", "5", "6", "7", "8", "9"}

\* the decimal digits of Python (str.isdecimal, accepted by int()): the
\* ASCII ones and those of other scripts, here ARABIC-INDIC DIGIT THREE
DecimalDigits == Digits \cup {"U+0663"}

\* the characters str.isdigit() accepts: the decimal digits and the digits
\* that form no base-10 number, here SUPERSCRIPT TWO
IsDigitChars == DecimalDigits \cup {"U+00B2"}

DigitVal(c) ==
    CASE c = "0" -> 0 [] c = "1" -> 1 [] c = "2" -> 2 [] c = "3" -> 3
      [] c = "4" -> 4 [] c = "5" -> 5 [] c = "6" -> 6 [] c = "7" -> 7
      [] c = "8" -> 8 [] c = "9" -> 9 [] c = "U+0663" -> 3

\* str.isdigit()
IsDigit(s) == Len(s) > 0 /\ \A i \in 1..Len(s) : s[i] \in IsDigitChars

\* int(s) of a two-character string that passed isdigit(): raises ValueError
\* unless both characters are decimal digits
IntOk(s) == \A i \in 1..Len(s) : s[i] \in DecimalDigits

\* int(s) of a two-digit string
Int2(s) == 10 * DigitVal(s[1]) + DigitVal(s[2])

\* the ValueError branch
ParseError == [ok |-> FALSE, hour |-> 0, minute |-> 0]

\* parse_time_slot with minute <= 60
parse_time_slot_minute60(time_slot) ==
    IF Len(time_slot) # 4 \/ ~IsDigit(time_slot) \/ ~IntOk(time_slot)
    THEN ParseError
    ELSE LET hour   == Int2(SubSeq(time_slot, 1, 2))
             minute == Int2(SubSeq(time_slot, 3, 4))
         IN  IF ~(0 <= hour /\ hour <= 23) \/ ~(0 <= minute /\ minute <= 60)
             THEN ParseError
             ELSE [ok |-> TRUE, hour |-> hour, minute |-> minute]

\* parse_time_slot taking every four characters, out-of-range ones as 00:00
parse_time_slot_lenient(time_slot) ==
    IF Len(time_slot) = 4 /\ IsDigit(time_slot) /\ IntOk(time_slot)
       /\ Int2(SubSeq(time_slot, 1, 2)) <= 23
       /\ Int2(SubSeq(time_slot, 3, 4)) <= 59
    THEN [ok |-> TRUE, hour |-> Int2(SubSeq(time_slot, 1, 2)),
          minute |-> Int2(SubSeq(time_slot, 3, 4))]
    ELSE [ok |-> TRUE, hour |-> 0, minute |-> 0]

parse_time_slot(time_slot) ==
    IF Len(time_slot) # 4 \/ ~IsDigit(time_slot)
    THEN ParseError
    ELSE IF ~IntOk(SubSeq(time_slot, 1, 2)) \/ ~IntOk(SubSeq(time_slot, 3, 4))
    THEN ParseError
    ELSE LET hour   == Int2(SubSeq(time_slot, 1, 2))
             minute == Int2(SubSeq(time_slot, 3, 4))
         IN  IF ~(0 <= hour /\ hour <= 23) \/ ~(0 <= minute /\ minute <= 59)
             THEN ParseError
             ELSE [ok |-> TRUE, hour |-> hour, minute |-> minute]

(***************************************************************************)
(* get_next_occurrence                                                     *)
(***************************************************************************)
\* get_next_occurrence stepping one day for a label it does not know
get_next_occurrence_else_daily(current, frequency) ==
    IF frequency = "Weekly" THEN AddDays(current, 7)
    ELSE IF frequency = "Bi-Weekly" THEN AddDays(current, 14)
    ELSE IF frequency = "Monthly" THEN AddMonths(current, 1)
    ELSE IF frequency = "Bi-Monthly" THEN AddMonths(current, 2)
    ELSE AddDays(current, 1)

get_next_occurrence(current, frequency) ==
    IF frequency = "Daily" THEN AddDays(current, 1)
    ELSE IF frequency = "Weekly" THEN AddDays(current, 7)
    ELSE IF frequency = "Bi-Weekly" THEN AddDays(current, 14)
    ELSE IF frequency = "Monthly" THEN AddMonths(current, 1)
    ELSE IF frequency = "Bi-Monthly" THEN AddMonths(current, 2)
    ELSE AddDays(current, 7)

\* frequency or "Weekly"
FreqOrWeekly(frequency) ==
    IF frequency = PyNone \/ frequency = "" THEN "Weekly" ELSE frequency

\* the alignment loop stepping before it tests (first occurrence strictly
\* after the anchor)
RECURSIVE AlignWeekdayNext(_, _)
AlignWeekdayNext(current, weekday_num) ==
    IF Weekday(current.ord + 1) # weekday_num
    THEN AlignWeekdayNext(AddDays(current, 1), weekday_num)
    ELSE AddDays(current, 1)

\* while current.weekday() != weekday_num: current += timedelta(days=1)
RECURSIVE AlignWeekday(_, _)
AlignWeekday(current, weekday_num) ==
    IF Weekday(current.ord) # weekday_num
    THEN AlignWeekday(AddDays(current, 1), weekday_num)
    ELSE current

(***************************************************************************)
(* Inputs: the pages the database can hold and the collaborators' answers. *)
(***************************************************************************)
PageIds == 1..MaxPages

\* the event id a page holds before the first run, if it holds one
PreId(p) == p

\* the id the calendar gives the k-th event it inserts for page p in run r
EventId(r, p, k) == 1000 * r + 100 * p + k

\* what extract_title can return
TitleInputs == {"Gym", "", "(untitled)", "(no title property)"}

\* Day of the Week (multi_select names, each as its '-'-separated pieces)
DaysInputs ==
    { <<>>,
      << <<"Monday">> >>,
      << <<"1", "Monday">>, <<"Friday">> >>,
      << <<"Funday">>, <<"Sunday">> >> }

\* Time Slot (<<>> stands for None and for "")
SlotInputs ==
    { <<>>,
      <<"0", "6", "0", "0">>,
      <<"2", "3", "5", "9">>,
      <<"2", "4", "0", "0">>,
      <<"0", "6", ":", "0", "0">> }

\* Frequency (select name, or None)
FreqInputs ==
    {PyNone, "Daily", "Weekly", "Bi-Weekly", "Monthly", "Bi-Monthly", "Yearly"}

\* the time slots and frequencies of the pages of a whole run (Spec);
\* SpecRecurring draws from all of SlotInputs and FreqInputs
CoreSlots == SlotInputs \ {<<"2", "3", "5", "9">>}

CoreFreqs == {PyNone, "Daily", "Monthly"}

\* the recurrence fields a page with an explicit date may carry as well
DatedExtras ==
    { [days |-> <<>>, time_slot |-> <<>>, frequency |-> PyNone],
      [days |-> << <<"Monday">> >>, time_slot |-> <<"0", "6", "0", "0">>,
       frequency |-> "Daily"],
      [days |-> << <<"1", "Monday">>, <<"Friday">> >>,
       time_slot |-> <<"0", "6", "0", "0">>, frequency |-> "Weekly"] }

\* The read-only fields of a page.  has_date: the Date property holds a date
\* (with its start, as the Notion API returns it); malformed: an option of
\* Day of the Week lacks its "name" key, so extract_days_and_time raises.
PageInputs ==
    {[title |-> t, has_date |-> FALSE, malformed |-> FALSE, days |-> <<>>,
      time_slot |-> <<>>, frequency |-> PyNone] :
        t \in TitleInputs \ {"Gym"}}
    \cup
    {[title |-> "Gym", has_date |-> TRUE, malformed |-> FALSE,
      days |-> x.days, time_slot |-> x.time_slot, frequency |-> x.frequency] :
        x \in DatedExtras}
    \cup
    {[title |-> "Gym", has_date |-> FALSE, malformed |-> TRUE, days |-> <<>>,
      time_slot |-> <<>>, frequency |-> PyNone]}
    \cup
    {[title |-> "Gym", has_date |-> FALSE, malformed |-> FALSE, days |-> d,
      time_slot |-> s, frequency |-> f] :
        d \in DaysInputs, s \in CoreSlots, f \in CoreFreqs}

\* no page is being synced
NoPage ==
    [title |-> "", has_date |-> FALSE, malformed |-> FALSE, days |-> <<>>,
     time_slot |-> <<>>, frequency |-> PyNone]

\* time of day of datetime.now(), in minutes (0: midnight sharp)
NowTimes == {0, 720}

\* what datetime.now() can return
NowInputs ==
    {DateTime(Ymd2Ord(Year, 12, 31) - k, t) : k \in 0..MaxDaysLeft, t \in NowTimes}

\* what datetime.now() can return, over the last months of Year
WideNowInputs ==
    {DateTime(Ymd2Ord(Year, m, DaysInMonth(Year, m)) - k, t) :
        m \in (12 - MaxMonthsBack)..12, k \in 0..MaxDaysLeft, t \in NowTimes}

\* no datetime yet
NoTime == DateTime(0, 0)

\* An HttpError: its status, and whether the rest of its text (the request
\* URI with the calendar id and the event id, the reason) contains "404".
HttpErrors ==
    {[kind |-> "http", status |-> s, text404 |-> b] :
        s \in {404, 500}, b \in BOOLEAN}

\* the answers of the calendar to events().update(...).execute()
UpdateOutcomes ==
    {[kind |-> "ok", status |-> 200, text404 |-> FALSE],
     [kind |-> "error", status |-> 0, text404 |-> FALSE]} \cup HttpErrors

\* the answers of the calendar to events().insert(...).execute()
InsertOutcomes == {"ok", "error"}

\* the answers of Notion to pages.update(...)
PatchOutcomes == {"ok", "error"}

\* run_sync called without max_pages (the default, None)
NoMaxPages == [none |-> TRUE, n |-> 0]

\* start_cursor = None
NoCursor == 0

\* no update was answered yet
NoAnswer == [kind |-> "none", status |-> 0, text404 |-> FALSE]

\* "410" in str(e)
Has404Gone(e) == e.status = 410

\* "404" in str(e)
Has404(e) == e.status = 404 \/ e.text404

(***************************************************************************)
(* State.                                                                  *)
(***************************************************************************)
VARIABLES
    DRY_RUN,            \* the process-wide flag (line 49, set by run_sync)
    run,                \* number of runs started
    store,              \* Notion: page id -> rich_text of Google Event ID
    max_pages,          \* run_sync: its max_pages argument
    queried_pages,      \* run_sync: what query_notion_database returned
    start_cursor,       \* query_notion_database: the cursor of the next query
    requests,           \* the cursor passed by each databases.query call
    responses,          \* the answer of Notion to each databases.query call
    pages,              \* run_sync: the pages to sync in this run
    idx,                \* run_sync: position of the page being synced
    pc,                 \* where the program stands
    success_count,      \* run_sync
    error_count,        \* run_sync
    sleeps,             \* time.sleep(0.2) calls of this run
    page,               \* sync_page: the fields extracted from the page
    existing_event_id,  \* sync_page_with_date
    event_id,           \* created.get("id") / updated.get("id")
    slot,               \* sync_page_with_recurring: parsed hour, minute
    today,              \* sync_page_with_recurring
    current,            \* sync_page_with_recurring
    day,                \* sync_page_with_recurring: position in days
    events_created,     \* sync_page_with_recurring
    event_datetime,     \* sync_page_with_recurring
    inserts,            \* events().insert calls issued for this page
    updates,            \* events().update calls issued for this page
    patches,            \* pages.update calls issued for this page
    errors,             \* logger.error calls made for this page
    inserted,           \* events the calendar inserted for this page
    update_answer,      \* the calendar's answer to the update of this page
    patch_answer        \* Notion's answer to the pages.update of this page

querying == <<start_cursor, requests, responses>>
driver == <<DRY_RUN, run, max_pages, queried_pages, querying, pages, idx,
            success_count, error_count, sleeps>>
locals == <<existing_event_id, event_id, slot, today, current, day,
            events_created, event_datetime>>
calls  == <<inserts, updates, patches, errors, inserted, update_answer,
            patch_answer>>
vars   == <<driver, store, pc, page, locals, calls>>

\* the locals before a page is synced
LocalsReset ==
    /\ existing_event_id' = NoId
    /\ event_id' = NoId
    /\ slot' = ParseError
    /\ today' = NoTime
    /\ current' = NoTime
    /\ day' = 0
    /\ events_created' = 0
    /\ event_datetime' = NoTime

\* nothing was issued for the page yet
CallsReset ==
    /\ inserts' = 0
    /\ updates' = 0
    /\ patches' = 0
    /\ errors' = 0
    /\ inserted' = 0
    /\ update_answer' = NoAnswer
    /\ patch_answer' = "none"

Init ==
    /\ DRY_RUN = TRUE
    /\ run = 0
    /\ store \in [PageIds -> {<<>>} \cup {<<PreId(p)>> : p \in PageIds}]
    /\ \A p \in PageIds : store[p] \in {<<>>, <<PreId(p)>>}
    /\ max_pages = NoMaxPages
    /\ queried_pages = <<>>
    /\ start_cursor = NoCursor
    /\ requests = <<>>
    /\ responses = <<>>
    /\ pages = <<>>
    /\ idx = 0
    /\ pc = "idle"
    /\ success_count = 0
    /\ error_count = 0
    /\ sleeps = 0
    /\ page = NoPage
    /\ existing_event_id = NoId
    /\ event_id = NoId
    /\ slot = ParseError
    /\ today = NoTime
    /\ current = NoTime
    /\ day = 0
    /\ events_created = 0
    /\ event_datetime = NoTime
    /\ inserts = 0
    /\ updates = 0
    /\ patches = 0
    /\ errors = 0
    /\ inserted = 0
    /\ update_answer = NoAnswer
    /\ patch_answer = "none"

(***************************************************************************)
(* The collaborator calls.                                                 *)
(***************************************************************************)
\* get_page_event_id: plain_text of the first rich_text element, or None
get_page_event_id(prop) == IF Len(prop) > 0 THEN prop[1] ELSE NoId

\* create_calendar_event without its DRY_RUN test
create_calendar_event_live(outcome, fresh) ==
    [contact |-> TRUE, raised |-> outcome # "ok",
     id |-> IF outcome = "ok" THEN fresh ELSE NoId]

\* create_calendar_event: contact tells whether events().insert was
\* called, raised whether the call raised, id is created.get("id").
create_calendar_event(outcome, fresh) ==
    IF DRY_RUN
    THEN [contact |-> FALSE, raised |-> FALSE, id |-> DryRunId]
    ELSE [contact |-> TRUE, raised |-> outcome # "ok",
          id |-> IF outcome = "ok" THEN fresh ELSE NoId]

\* update_calendar_event: as above, for events().update
update_calendar_event(outcome, id) ==
    IF DRY_RUN
    THEN [contact |-> FALSE, raised |-> FALSE, id |-> id]
    ELSE [contact |-> TRUE, raised |-> outcome.kind # "ok",
          id |-> IF outcome.kind = "ok" THEN id ELSE NoId]

\* notion_patch_event_id adding the id to the rich_text it finds
notion_patch_event_id_append(page_id, id, outcome) ==
    IF outcome = "ok" THEN [store EXCEPT ![page_id] = Append(@, id)] ELSE store

\* notion_patch_event_id sending no properties
notion_patch_event_id_drop(page_id, id, outcome) == store

\* notion_patch_event_id: the store after pages.update(page_id, ...); a
\* failure of the call is logged and swallowed
notion_patch_event_id(page_id, id, outcome) ==
    IF outcome = "ok" THEN [store EXCEPT ![page_id] = <<id>>] ELSE store

\* pages[:max_pages]
PySlice(ps, k) ==
    IF k >= 0 THEN SubSeq(ps, 1, Min(k, Len(ps)))
    ELSE SubSeq(ps, 1, IF Len(ps) + k > 0 THEN Len(ps) + k ELSE 0)

\* the --max-pages argument: None, or an int
MaxPagesArgs ==
    {[none |-> TRUE, n |-> 0]} \cup
    {[none |-> FALSE, n |-> k] : k \in (0 - 1)..MaxPages}

\* if max_pages: pages = pages[:max_pages]
Truncate(ps, arg) ==
    IF ~arg.none /\ arg.n # 0 THEN PySlice(ps, arg.n) ELSE ps

\* the id the calendar gives the next event inserted for the page
FreshId == EventId(run, pages[idx].id, inserted + 1)

\* not title or title in ["(no title property)", "(untitled)"]
InvalidTitle(title) ==
    title = "" \/ title \in {"(no title property)", "(untitled)"}

(***************************************************************************)
(* run_sync                                                                *)
(***************************************************************************)
\* run_sync up to its loop, in a program run at most max_runs times: set the
\* flag, query the database (n pages, each with the Google Event ID it holds
\* now), truncate to max_pages
RunSync(max_runs, dry_run, n, arg) ==
    /\ pc = "idle"
    /\ run < max_runs
    /\ run' = run + 1
    /\ DRY_RUN' = dry_run
    /\ max_pages' = arg
    /\ queried_pages' = [i \in 1..n |-> [id |-> i, event_id_prop |-> store[i]]]
    /\ pages' = Truncate(queried_pages', arg)
    /\ idx' = 0
    /\ success_count' = 0
    /\ error_count' = 0
    /\ sleeps' = 0
    /\ pc' = "loop"
    /\ UNCHANGED <<querying, store, page, locals, calls>>

\* for i, page in enumerate(pages, start=1): the next page
NextPage ==
    /\ pc = "loop"
    /\ idx < Len(pages)
    /\ idx' = idx + 1
    /\ pc' = "sync_page"
    /\ UNCHANGED <<DRY_RUN, run, max_pages, queried_pages, querying, pages,
                   success_count, error_count, sleeps, store,
                   page, locals, calls>>

\* the loop is over: the summary is logged and run_sync returns
Finish ==
    /\ pc = "loop"
    /\ idx = Len(pages)
    /\ pc' = "idle"
    /\ UNCHANGED <<driver, store, page, locals, calls>>

\* sync_page returned (its locals are gone): success_count += 1;
\* time.sleep(0.2)
PageDone ==
    /\ pc = "page_ok"
    /\ success_count' = success_count + 1
    /\ sleeps' = sleeps + 1
    /\ page' = NoPage
    /\ LocalsReset
    /\ CallsReset
    /\ pc' = "loop"
    /\ UNCHANGED <<DRY_RUN, run, max_pages, queried_pages, querying, pages,
                   idx, error_count, store>>

\* the exception of sync_page ending the loop
PageFailedAborts ==
    /\ pc = "page_err"
    /\ error_count' = error_count + 1
    /\ idx' = Len(pages)
    /\ page' = NoPage
    /\ LocalsReset
    /\ CallsReset
    /\ pc' = "loop"
    /\ UNCHANGED <<DRY_RUN, run, max_pages, queried_pages, querying, pages,
                   success_count, sleeps, store>>

\* sync_page raised: error_count += 1
PageFailed ==
    /\ pc = "page_err"
    /\ error_count' = error_count + 1
    /\ page' = NoPage
    /\ LocalsReset
    /\ CallsReset
    /\ pc' = "loop"
    /\ UNCHANGED <<DRY_RUN, run, max_pages, queried_pages, querying, pages,
                   idx, success_count, sleeps, store>>

(***************************************************************************)
(* sync_page                                                               *)
(***************************************************************************)
\* sync_page_with_date never looking at existing_event_id
SyncPageTargetCreateOnly(p, existing) ==
    IF InvalidTitle(p.title) THEN "page_ok"
    ELSE IF p.has_date THEN "create"
    ELSE IF p.malformed THEN "page_err"
    ELSE IF p.days = <<>> \/ p.time_slot = <<>> THEN "page_ok"
    ELSE "recurring"

\* sync_page looking at the recurrence fields before the date
SyncPageTargetDaysFirst(p, existing) ==
    IF InvalidTitle(p.title) THEN "page_ok"
    ELSE IF p.days # <<>> /\ p.time_slot # <<>> THEN "recurring"
    ELSE IF p.has_date THEN (IF existing # NoId THEN "update" ELSE "create")
    ELSE IF p.malformed THEN "page_err"
    ELSE "page_ok"

\* sync_page without its test of days and time_slot
SyncPageTargetNoSkip(p, existing) ==
    IF InvalidTitle(p.title) THEN "page_ok"
    ELSE IF p.has_date THEN (IF existing # NoId THEN "update" ELSE "create")
    ELSE IF p.malformed THEN "page_err"
    ELSE "recurring"

\* sync_page updating the linked event of a recurring page
SyncPageTargetUpdatesLinked(p, existing) ==
    IF InvalidTitle(p.title) THEN "page_ok"
    ELSE IF p.has_date THEN (IF existing # NoId THEN "update" ELSE "create")
    ELSE IF p.malformed THEN "page_err"
    ELSE IF p.days = <<>> \/ p.time_slot = <<>> THEN "page_ok"
    ELSE IF existing # NoId THEN "update"
    ELSE "recurring"

\* where sync_page goes with the fields p, up to the first collaborator call
SyncPageTarget(p, existing) ==
    IF InvalidTitle(p.title) THEN "page_ok"
    ELSE IF p.has_date THEN (IF existing # NoId THEN "update" ELSE "create")
    ELSE IF p.malformed THEN "page_err"
    ELSE IF p.days = <<>> \/ p.time_slot = <<>> THEN "page_ok"
    ELSE "recurring"

SyncPage(p) ==
    /\ pc = "sync_page"
    /\ page' = p
    /\ LET existing == get_page_event_id(pages[idx].event_id_prop)
       IN  /\ pc' = SyncPageTarget(p, existing)
           /\ existing_event_id' =
                 IF ~InvalidTitle(p.title) /\ p.has_date THEN existing ELSE NoId
    /\ UNCHANGED <<driver, store, event_id, slot, today, current, day,
                   events_created, event_datetime, calls>>

(***************************************************************************)
(* sync_page_with_date                                                     *)
(***************************************************************************)
\* update_calendar_event(service, calendar_id, existing_event_id, payload)
UpdateEvent(outcome) ==
    /\ pc = "update"
    /\ outcome.kind # "ok" /\ ~Has404(outcome) => errors < MaxErrors
    /\ LET r == update_calendar_event(outcome, existing_event_id)
       IN  /\ updates' = IF r.contact THEN updates + 1 ELSE updates
           /\ update_answer' = IF r.contact THEN outcome ELSE update_answer
           /\ IF ~r.raised
              THEN /\ event_id' = r.id
                   /\ pc' = IF ~DRY_RUN THEN "patch" ELSE "page_ok"
                   /\ errors' = errors
              ELSE IF outcome.kind = "http" /\ Has404(outcome)
              THEN /\ pc' = "create"
                   /\ UNCHANGED <<event_id, errors>>
              ELSE /\ pc' = "page_ok"
                   /\ errors' = errors + 1
                   /\ UNCHANGED event_id
    /\ UNCHANGED <<driver, store, page, existing_event_id, slot, today, current,
                   day, events_created, event_datetime, inserts, patches,
                   inserted, patch_answer>>

\* create_calendar_event(service, calendar_id, payload), first or fallback
CreateEvent(outcome) ==
    /\ pc = "create"
    /\ outcome # "ok" => errors < MaxErrors
    /\ LET r == create_calendar_event(outcome, FreshId)
       IN  /\ inserts' = IF r.contact THEN inserts + 1 ELSE inserts
           /\ IF ~r.raised
              THEN /\ event_id' = r.id
                   /\ inserted' = IF r.contact THEN inserted + 1 ELSE inserted
                   /\ pc' = IF ~DRY_RUN THEN "patch" ELSE "page_ok"
                   /\ errors' = errors
              ELSE /\ pc' = "page_ok"
                   /\ errors' = errors + 1
                   /\ UNCHANGED <<event_id, inserted>>
    /\ UNCHANGED <<driver, store, page, existing_event_id, slot, today, current,
                   day, events_created, event_datetime, updates, patches,
                   update_answer, patch_answer>>

\* notion_patch_event_id(notion, page_id, updated/created.get("id"))
PatchEventId(outcome) ==
    /\ pc = "patch"
    /\ outcome # "ok" => errors < MaxErrors
    /\ patches' = patches + 1
    /\ store' = notion_patch_event_id(pages[idx].id, event_id, outcome)
    /\ errors' = IF outcome = "ok" THEN errors ELSE errors + 1
    /\ patch_answer' = outcome
    /\ pc' = "page_ok"
    /\ UNCHANGED <<driver, page, locals, inserts, updates, inserted,
                   update_answer>>

(***************************************************************************)
(* sync_page_with_recurring                                                *)
(***************************************************************************)
\* current = get_next_occurrence(current, frequency or "Weekly", ...)
NextCurrent == get_next_occurrence(current, FreqOrWeekly(page.frequency))

\* while current <= end_date + timedelta(days=7)
InHorizonLate == DtLeq(current, AddDays(EndOfYear(today), 7))

\* while current <= end_date
InHorizon == DtLeq(current, EndOfYear(today))

\* the write-back without its test of events_created
WritesBackAlways(n, id) == id # NoId /\ ~DRY_RUN

\* if events_created == 1 and created and created.get("id") and not DRY_RUN
WritesBack(n, id) == n = 1 /\ id # NoId /\ ~DRY_RUN

\* parse the time slot, read the clock, enter the Daily loop or the day loop
RecurringBegin(now) ==
    /\ pc = "recurring"
    /\ LET r == parse_time_slot(page.time_slot)
       IN  IF ~r.ok
           THEN /\ pc' = "page_ok"
                /\ UNCHANGED <<slot, today, current, day>>
           ELSE /\ slot' = r
                /\ today' = now
                /\ IF page.frequency = "Daily"
                   THEN current' = now /\ day' = 0 /\ pc' = "occurrence"
                   ELSE current' = NoTime /\ day' = 1 /\ pc' = "day"
    /\ UNCHANGED <<driver, store, page, existing_event_id, event_id,
                   events_created, event_datetime, calls>>

\* for day in days: resolve the weekday and find its first occurrence
RecurringDay ==
    /\ pc = "day"
    /\ IF day > Len(page.days)
       THEN /\ pc' = "page_ok"
            /\ UNCHANGED <<day, current>>
       ELSE LET weekday_num == DayMapGet(DayName(page.days[day]))
            IN  IF weekday_num = NoneInt
                THEN /\ day' = day + 1
                     /\ UNCHANGED <<pc, current>>
                ELSE /\ current' = AlignWeekday(today, weekday_num)
                     /\ pc' = "occurrence"
                     /\ UNCHANGED day
    /\ UNCHANGED <<driver, store, page, existing_event_id, event_id, slot, today,
                   events_created, event_datetime, calls>>

\* the while loop is over for this day (or for the Daily expansion)
RecurringExit ==
    /\ pc = "occurrence"
    /\ ~InHorizon
    /\ IF page.frequency = "Daily"
       THEN pc' = "page_ok" /\ UNCHANGED day
       ELSE pc' = "day" /\ day' = day + 1
    /\ UNCHANGED <<driver, store, page, existing_event_id, event_id, slot, today,
                   current, events_created, event_datetime, calls>>

\* one pass of the while loop: build the event and create it
RecurringCreate(outcome) ==
    /\ pc = "occurrence"
    /\ InHorizon
    /\ outcome # "ok" => errors < MaxErrors
    /\ event_datetime' = ReplaceTime(current, slot.hour, slot.minute)
    /\ LET r == create_calendar_event(outcome, FreshId)
       IN  /\ inserts' = IF r.contact THEN inserts + 1 ELSE inserts
           /\ IF ~r.raised
              THEN /\ events_created' = events_created + 1
                   /\ event_id' = r.id
                   /\ inserted' = IF r.contact THEN inserted + 1 ELSE inserted
                   /\ errors' = errors
                   /\ IF WritesBack(events_created + 1, r.id)
                      THEN pc' = "recurring_patch" /\ UNCHANGED current
                      ELSE pc' = "occurrence" /\ current' = NextCurrent
              ELSE /\ errors' = errors + 1
                   /\ current' = NextCurrent
                   /\ UNCHANGED <<pc, events_created, event_id, inserted>>
    /\ UNCHANGED <<driver, store, page, existing_event_id, slot, today, day,
                   updates, patches, update_answer, patch_answer>>

\* notion_patch_event_id for the first event created, then the next occurrence
RecurringPatch(outcome) ==
    /\ pc = "recurring_patch"
    /\ outcome # "ok" => errors < MaxErrors
    /\ patches' = patches + 1
    /\ store' = notion_patch_event_id(pages[idx].id, event_id, outcome)
    /\ errors' = IF outcome = "ok" THEN errors ELSE errors + 1
    /\ patch_answer' = outcome
    /\ current' = NextCurrent
    /\ pc' = "occurrence"
    /\ UNCHANGED <<driver, page, existing_event_id, event_id, slot, today, day,
                   events_created, event_datetime, inserts, updates, inserted,
                   update_answer>>

(***************************************************************************)
(* The program.                                                            *)
(***************************************************************************)
Next ==
    \/ \E dry_run \in BOOLEAN, n \in 0..MaxPages :
          RunSync(MaxRuns, dry_run, n, NoMaxPages)
    \/ NextPage
    \/ Finish
    \/ PageDone
    \/ PageFailed
    \/ \E p \in PageInputs : SyncPage(p)
    \/ \E outcome \in UpdateOutcomes : UpdateEvent(outcome)
    \/ \E outcome \in InsertOutcomes : CreateEvent(outcome)
    \/ \E outcome \in PatchOutcomes : PatchEventId(outcome)
    \/ \E now \in NowInputs : RecurringBegin(now)
    \/ RecurringDay
    \/ RecurringExit
    \/ \E outcome \in InsertOutcomes : RecurringCreate(outcome)
    \/ \E outcome \in PatchOutcomes : RecurringPatch(outcome)

Spec == Init /\ [][Next]_vars

(***************************************************************************)
(* sync_page_with_recurring alone: one page with recurrence fields, of any *)
(* time slot and frequency, synced once, in dry-run or live mode.          *)
(***************************************************************************)
\* the pages sync_page hands to sync_page_with_recurring
RecurringInputs ==
    {[title |-> "Gym", has_date |-> FALSE, malformed |-> FALSE, days |-> d,
      time_slot |-> s, frequency |-> f] :
        d \in DaysInputs \ {<<>>}, s \in SlotInputs \ {<<>>}, f \in FreqInputs}

\* the state in which sync_page_with_recurring is entered for the one page of
\* a run, the page among inputs and DRY_RUN among flags
RecurringStart(inputs, flags) ==
    /\ DRY_RUN \in flags
    /\ run = 1
    /\ store \in [PageIds -> {<<>>, <<PreId(1)>>}]
    /\ \A p \in PageIds \ {1} : store[p] = <<>>
    /\ max_pages = NoMaxPages
    /\ queried_pages = <<[id |-> 1, event_id_prop |-> store[1]]>>
    /\ start_cursor = NoCursor
    /\ requests = <<>>
    /\ responses = <<>>
    /\ pages = queried_pages
    /\ idx = 1
    /\ pc = "recurring"
    /\ success_count = 0
    /\ error_count = 0
    /\ sleeps = 0
    /\ page \in inputs
    /\ existing_event_id = NoId
    /\ event_id = NoId
    /\ slot = ParseError
    /\ today = NoTime
    /\ current = NoTime
    /\ day = 0
    /\ events_created = 0
    /\ event_datetime = NoTime
    /\ inserts = 0
    /\ updates = 0
    /\ patches = 0
    /\ errors = 0
    /\ inserted = 0
    /\ update_answer = NoAnswer
    /\ patch_answer = "none"

InitRecurring == RecurringStart(RecurringInputs, BOOLEAN)

NextRecurring ==
    \/ \E now \in WideNowInputs : RecurringBegin(now)
    \/ RecurringDay
    \/ RecurringExit
    \/ \E outcome \in InsertOutcomes : RecurringCreate(outcome)
    \/ \E outcome \in PatchOutcomes : RecurringPatch(outcome)

SpecRecurring == InitRecurring /\ [][NextRecurring]_vars

(***************************************************************************)
(* An explicit-date page synced in one live run after the other: every run *)
(* is live, queries the one page and finds it dated.                       *)
(***************************************************************************)
\* the pages sync_page hands to sync_page_with_date
DatedInputs == {p \in PageInputs : p.has_date}

NextTwice ==
    \/ RunSync(MaxRunsTwice, FALSE, 1, NoMaxPages)
    \/ NextPage
    \/ Finish
    \/ PageDone
    \/ \E p \in DatedInputs : SyncPage(p)
    \/ \E outcome \in UpdateOutcomes : UpdateEvent(outcome)
    \/ \E outcome \in InsertOutcomes : CreateEvent(outcome)
    \/ \E outcome \in PatchOutcomes : PatchEventId(outcome)

SpecTwice == Init /\ [][NextTwice]_vars

(***************************************************************************)
(* parse_time_slot on every string: sync_page_with_recurring entered with  *)
(* a page whose time slot is any string of at most MaxSlotLen characters.  *)
(***************************************************************************)
\* the characters of the time slots
SlotChars == {"0", "2", "6", "U+0663", "U+00B2", ":"}

\* the strings of at most MaxSlotLen characters
SlotStrings == UNION {[1..n -> SlotChars] : n \in 0..MaxSlotLen}

ParseInputs ==
    {[title |-> "Gym", has_date |-> FALSE, malformed |-> FALSE,
      days |-> << <<"Monday">> >>, time_slot |-> s, frequency |-> "Weekly"] :
        s \in SlotStrings}

InitParse == RecurringStart(ParseInputs, {TRUE})

NextParse ==
    \E now \in {DateTime(Ymd2Ord(Year, 12, 31), t) : t \in NowTimes} :
        RecurringBegin(now)

SpecParse == InitParse /\ [][NextParse]_vars

(***************************************************************************)
(* One series of occurrences: sync_page_with_recurring entered in live     *)
(* mode with a page of one weekday, any of the seven, and any frequency    *)
(* but Daily, over the last months of the year.                            *)
(***************************************************************************)
SeriesInputs ==
    {[title |-> "Gym", has_date |-> FALSE, malformed |-> FALSE,
      days |-> << <<d>> >>, time_slot |-> <<"0", "6", "0", "0">>,
      frequency |-> f] :
        d \in DOMAIN DAY_MAP, f \in FreqInputs \ {"Daily"}}

SeriesNowInputs ==
    {DateTime(Ymd2Ord(Year, m, DaysInMonth(Year, m)) - k, t) :
        m \in (12 - MaxSeriesMonths)..12, k \in 0..MaxDaysLeft, t \in NowTimes}

InitSeries == RecurringStart(SeriesInputs, {FALSE})

NextSeries ==
    \/ \E now \in SeriesNowInputs : RecurringBegin(now)
    \/ RecurringDay
    \/ RecurringExit
    \/ \E outcome \in InsertOutcomes : RecurringCreate(outcome)
    \/ \E outcome \in PatchOutcomes : RecurringPatch(outcome)

SpecSeries == InitSeries /\ [][NextSeries]_vars

(***************************************************************************)
(* The driver alone: run_sync with every --max-pages argument, over pages  *)
(* that sync_page leaves without a collaborator call.                      *)
(***************************************************************************)
DriverInputs ==
    {p \in PageInputs :
        /\ ~p.has_date
        /\ \/ InvalidTitle(p.title) \/ p.malformed
           \/ p.days = <<>> \/ p.time_slot = <<>>}

NextDriver ==
    \/ \E dry_run \in BOOLEAN, n \in 0..MaxPages, arg \in MaxPagesArgs :
          RunSync(MaxRuns, dry_run, n, arg)
    \/ NextPage
    \/ Finish
    \/ PageDone
    \/ PageFailed
    \/ \E p \in DriverInputs : SyncPage(p)

SpecDriver == Init /\ [][NextDriver]_vars

(***************************************************************************)
(* extract_title on the pages of Notion: sync_page entered in a dry run    *)
(* with one page whose "properties" hold a title property under "Tasks",   *)
(* under "Name" (the key of tests/test_basic.py), under both, or none.     *)
(***************************************************************************)
\* NOTION_TITLE_PROP = "Tasks"
NOTION_TITLE_PROP == "Tasks"

\* a key a dict does not hold
Absent == "(absent)"

\* the title of the page in the tests, and a fixed title under "Tasks"
TitleTexts == {"", "Test Event"}

\* an element of the "title" list: its "plain_text" (or Absent), and the
\* "content" of its "text" (Absent: no "text", or a "text" without "content")
RichTexts ==
    [plain_text : TitleTexts \cup {Absent},
     content : {"", "Another Event", Absent}]

\* a title property: {} (falsy), or a dict with its "title" list
TitleProps ==
    {[falsy |-> TRUE, title |-> <<>>]} \cup
    {[falsy |-> FALSE, title |-> t] :
        t \in UNION {[1..n -> RichTexts] : n \in 0..MaxTitleLen}}

\* the title property the database really has
TasksProp ==
    [falsy |-> FALSE, title |-> <<[plain_text |-> "Gym", content |-> "Gym"]>>]

\* page["properties"], as a function from the keys it holds
TitleProperties ==
    {<<>>} \cup
    {[k \in {key} |-> v] : key \in {"Tasks", "Name"}, v \in TitleProps} \cup
    {[k \in {"Tasks", "Name"} |-> IF k = "Tasks" THEN TasksProp ELSE v] :
        v \in TitleProps}

\* for rich in title: the first element with a non-empty plain_text or with
\* a text.content decides
RECURSIVE FirstTitle(_, _)
FirstTitle(title, i) ==
    IF i > Len(title) THEN "(untitled)"
    ELSE IF title[i].plain_text # Absent /\ title[i].plain_text # ""
    THEN title[i].plain_text
    ELSE IF title[i].content # Absent THEN title[i].content
    ELSE FirstTitle(title, i + 1)

\* extract_title reading the property under the key name
extract_title_of(properties, name) ==
    IF name \notin DOMAIN properties \/ properties[name].falsy
    THEN "(no title property)"
    ELSE FirstTitle(properties[name].title, 1)

\* extract_title(page)
extract_title(properties) == extract_title_of(properties, NOTION_TITLE_PROP)

InitTitle ==
    /\ DRY_RUN = TRUE
    /\ run = 1
    /\ store = [p \in PageIds |-> <<>>]
    /\ max_pages = NoMaxPages
    /\ queried_pages \in
          {<<[id |-> 1, event_id_prop |-> <<>>, properties |-> props]>> :
              props \in TitleProperties}
    /\ start_cursor = NoCursor
    /\ requests = <<>>
    /\ responses = <<>>
    /\ pages = queried_pages
    /\ idx = 1
    /\ pc = "sync_page"
    /\ success_count = 0
    /\ error_count = 0
    /\ sleeps = 0
    /\ page = NoPage
    /\ existing_event_id = NoId
    /\ event_id = NoId
    /\ slot = ParseError
    /\ today = NoTime
    /\ current = NoTime
    /\ day = 0
    /\ events_created = 0
    /\ event_datetime = NoTime
    /\ inserts = 0
    /\ updates = 0
    /\ patches = 0
    /\ errors = 0
    /\ inserted = 0
    /\ update_answer = NoAnswer
    /\ patch_answer = "none"

\* sync_page on a page without date and recurrence fields: title =
\* extract_title(page), then the test of the title
SyncPageTitle ==
    SyncPage([NoPage EXCEPT !.title = extract_title(pages[idx].properties)])

NextTitle == SyncPageTitle

SpecTitle == InitTitle /\ [][NextTitle]_vars

(***************************************************************************)
(* The batch under an interrupt.  Ctrl-C makes Python raise                *)
(* KeyboardInterrupt in the main thread at the point the program has       *)
(* reached; no handler of run_sync, sync_page or the collaborator wrappers *)
(* catches it (they catch Exception, HttpError and ValueError), so it      *)
(* leaves run_sync and is caught by the try of __main__, which logs and    *)
(* ends the program.                                                       *)
(***************************************************************************)
\* where the program stood when KeyboardInterrupt was raised
InterruptedAt ==
    [loop |-> "interrupted in loop",
     sync_page |-> "interrupted in sync_page",
     update |-> "interrupted before update",
     create |-> "interrupted before create",
     patch |-> "interrupted before patch",
     recurring |-> "interrupted in recurring",
     day |-> "interrupted in day",
     occurrence |-> "interrupted in occurrence",
     recurring_patch |-> "interrupted before recurring_patch",
     page_ok |-> "interrupted in page_ok",
     page_err |-> "interrupted in page_err"]

\* KeyboardInterrupt raised during run_sync: the program ends where it stands
Interrupt ==
    /\ pc \in DOMAIN InterruptedAt
    /\ pc' = InterruptedAt[pc]
    /\ UNCHANGED <<driver, store, page, locals, calls>>

\* the pages of the interrupted batches: every path of sync_page
InterruptInputs ==
    {p \in PageInputs :
        \/ p.title # "Gym" \/ p.has_date \/ p.malformed
        \/ /\ p.days \in {<<>>, << <<"Monday">> >>}
           /\ p.time_slot \in {<<>>, <<"0", "6", "0", "0">>}
           /\ p.frequency \in {PyNone, "Daily"}}

NextInterrupt ==
    \/ \E dry_run \in BOOLEAN, n \in 0..MaxPages :
          RunSync(MaxRuns, dry_run, n, NoMaxPages)
    \/ NextPage
    \/ Finish
    \/ PageDone
    \/ PageFailed
    \/ \E p \in InterruptInputs : SyncPage(p)
    \/ \E outcome \in UpdateOutcomes : UpdateEvent(outcome)
    \/ \E outcome \in InsertOutcomes : CreateEvent(outcome)
    \/ \E outcome \in PatchOutcomes : PatchEventId(outcome)
    \/ \E now \in NowInputs : RecurringBegin(now)
    \/ RecurringDay
    \/ RecurringExit
    \/ \E outcome \in InsertOutcomes : RecurringCreate(outcome)
    \/ \E outcome \in PatchOutcomes : RecurringPatch(outcome)
    \/ Interrupt

SpecInterrupt == Init /\ [][NextInterrupt]_vars

(***************************************************************************)
(* One page synced in one live run after the other, found dated or         *)
(* recurring by each run (the page may be edited in between), with or      *)
(* without an event id stored before the first run.                        *)
(***************************************************************************)
RerunInputs ==
    {p \in PageInputs : p.has_date /\ p.days = <<>>}
    \cup
    {[title |-> "Gym", has_date |-> FALSE, malformed |-> FALSE, days |-> d,
      time_slot |-> <<"0", "6", "0", "0">>, frequency |-> f] :
        d \in {<< <<"Monday">> >>, << <<"1", "Monday">>, <<"Friday">> >>},
        f \in {PyNone, "Daily"}}

NextRerun ==
    \/ RunSync(MaxRunsTwice, FALSE, 1, NoMaxPages)
    \/ NextPage
    \/ Finish
    \/ PageDone
    \/ \E p \in RerunInputs : SyncPage(p)
    \/ \E outcome \in UpdateOutcomes : UpdateEvent(outcome)
    \/ \E outcome \in InsertOutcomes : CreateEvent(outcome)
    \/ \E outcome \in PatchOutcomes : PatchEventId(outcome)
    \/ \E now \in NowInputs : RecurringBegin(now)
    \/ RecurringDay
    \/ RecurringExit
    \/ \E outcome \in InsertOutcomes : RecurringCreate(outcome)
    \/ \E outcome \in PatchOutcomes : RecurringPatch(outcome)

SpecRerun == Init /\ [][NextRerun]_vars

(***************************************************************************)
(* query_notion_database, one databases.query call after the other.  The   *)
(* database holds some of the records PageIds in their order; Notion       *)
(* answers a query with the next records from the cursor on, at most       *)
(* MaxPageSize of them, tells whether more remain (has_more) and, if so,   *)
(* gives the cursor of the first remaining record.  A cursor is modelled   *)
(* by the position it stands for; Notion's cursors are non-empty strings.  *)
(***************************************************************************)
\* the record of the database at position i, as a query returns it
Record(i) == [id |-> i, event_id_prop |-> store[i]]

\* Notion can answer a query from position pos with k records and has_more
\* = more: the records exist, and an answer that promises more is not empty
\* (the last answer may be)
AnswerOk(pos, k, more) ==
    /\ pos + k - 1 <= MaxPages
    /\ more => k >= 1

\* that answer of notion.databases.query to a query passing cursor
Answer(cursor, k, more) ==
    LET pos == IF cursor = NoCursor THEN 1 ELSE cursor
    IN  [results |-> [i \in 1..k |-> Record(pos + i - 1)],
         has_more |-> more,
         next_cursor |-> IF more THEN pos + k ELSE NoCursor]

\* pages = response.get("results", [])
pages_replace(ps, results) == results

\* pages.extend(response.get("results", []))
pages_extend(ps, results) == ps \o results

\* run_sync up to the call of query_notion_database, whose locals are
\* pages = [] and start_cursor = None
QueryBegin(dry_run, arg) ==
    /\ pc = "idle"
    /\ run < MaxRuns
    /\ run' = run + 1
    /\ DRY_RUN' = dry_run
    /\ max_pages' = arg
    /\ queried_pages' = <<>>
    /\ start_cursor' = NoCursor
    /\ requests' = <<>>
    /\ responses' = <<>>
    /\ pages' = <<>>
    /\ idx' = 0
    /\ success_count' = 0
    /\ error_count' = 0
    /\ sleeps' = 0
    /\ pc' = "query"
    /\ UNCHANGED <<store, page, locals, calls>>

\* one pass of while True: the query (with start_cursor if it is truthy),
\* pages.extend, then break or start_cursor = response.get("next_cursor")
DatabasesQuery(k, more) ==
    /\ pc = "query"
    /\ LET cursor == IF start_cursor # NoCursor THEN start_cursor ELSE NoCursor
           response == Answer(cursor, k, more)
       IN  /\ AnswerOk(IF cursor = NoCursor THEN 1 ELSE cursor, k, more)
           /\ requests' = Append(requests, cursor)
           /\ responses' = Append(responses, response)
           /\ queried_pages' = pages_extend(queried_pages, response.results)
           /\ IF ~response.has_more
              THEN pc' = "queried" /\ UNCHANGED start_cursor
              ELSE pc' = "query" /\ start_cursor' = response.next_cursor
    /\ UNCHANGED <<DRY_RUN, run, max_pages, pages, idx, success_count,
                   error_count, sleeps, store, page, locals, calls>>

\* query_notion_database returned: run_sync truncates to max_pages and
\* enters its loop
QueryReturn ==
    /\ pc = "queried"
    /\ pages' = Truncate(queried_pages, max_pages)
    /\ pc' = "loop"
    /\ UNCHANGED <<DRY_RUN, run, max_pages, queried_pages, querying, idx,
                   success_count, error_count, sleeps, store, page, locals,
                   calls>>

NextQuery ==
    \/ \E dry_run \in BOOLEAN, arg \in MaxPagesArgs : QueryBegin(dry_run, arg)
    \/ \E k \in 0..MaxPageSize, more \in BOOLEAN : DatabasesQuery(k, more)
    \/ QueryReturn
    \/ NextPage
    \/ Finish
    \/ PageDone
    \/ PageFailed
    \/ \E p \in DriverInputs : SyncPage(p)

SpecQuery == Init /\ [][NextQuery]_vars

(***************************************************************************)
(* Vocabulary of the properties.                                           *)
(***************************************************************************)
\* sync_page is at work on pages[idx] and has extracted its fields
Syncing == pc \notin {"idle", "loop", "sync_page"}

\* sync_page returned or raised; the calls of the page are all issued
PageEnded == pc \in {"page_ok", "page_err"}

\* the page took the explicit-date path
Dated == Syncing /\ ~InvalidTitle(page.title) /\ page.has_date

\* the page took the recurrence path
Recurring ==
    /\ Syncing /\ ~InvalidTitle(page.title) /\ ~page.has_date /\ ~page.malformed
    /\ page.days # <<>> /\ page.time_slot # <<>>

\* the page has no explicit date and lacks its days or its time slot
Incomplete ==
    /\ Syncing /\ ~page.has_date /\ ~page.malformed
    /\ (page.days = <<>> \/ page.time_slot = <<>>)

\* the Google Event ID the page held when the run queried it, and holds now
Queried == pages[idx].event_id_prop
Stored  == store[pages[idx].id]

\* the id of the first event the calendar inserted for the page in this run
FirstId == EventId(run, pages[idx].id, 1)

\* the weekday number of the day the day loop stands on
Target == DayMapGet(DayName(page.days[day]))

\* the number of dates of the stepping sequence from c that are not after
\* the date last
RECURSIVE CountDates(_, _, _)
CountDates(c, frequency, last) ==
    IF c.ord <= last
    THEN 1 + CountDates(get_next_occurrence(c, frequency), frequency, last)
    ELSE 0

\* the same over the days i.. of the page
RECURSIVE CountDays(_, _)
CountDays(i, last) ==
    IF i > Len(page.days) THEN 0
    ELSE LET weekday_num == DayMapGet(DayName(page.days[i]))
         IN  (IF weekday_num = NoneInt THEN 0
              ELSE CountDates(AlignWeekday(today, weekday_num),
                              FreqOrWeekly(page.frequency), last))
             + CountDays(i + 1, last)

\* the occurrences of the page from the date of now to December 31 included
OccurrencesInHorizon ==
    LET last == Ymd2Ord(OrdYear(today.ord), 12, 31)
    IN  IF page.frequency = "Daily" THEN CountDates(today, "Daily", last)
        ELSE CountDays(1, last)

\* the time slot s is HHMM: four decimal digits, HH in 0..23, MM in 0..59
ValidHHMM(s) ==
    /\ Len(s) = 4
    /\ \A i \in 1..4 : s[i] \in DecimalDigits
    /\ 10 * DigitVal(s[1]) + DigitVal(s[2]) \in 0..23
    /\ 10 * DigitVal(s[3]) + DigitVal(s[4]) \in 0..59

\* the update was answered with a not-found / with another failure
UpdateNotFound == update_answer.kind = "http" /\ update_answer.status = 404
UpdateOtherFailure ==
    update_answer.kind \in {"http", "error"} /\ update_answer.status # 404

(***************************************************************************)
(* Properties.                                                             *)
(***************************************************************************)

\* C1: under DRY_RUN no step issues a calendar insert or update or a Notion
\* write, whatever the pages of the run are; create_calendar_event hands
\* back "dry-run-event-id" and update_calendar_event the id it was given,
\* and the write-back is never reached.
C1_DryRunIssuesNothing ==
    [][DRY_RUN' =>
         /\ store' = store
         /\ inserts' = 0 /\ updates' = 0 /\ patches' = 0 /\ inserted' = 0
         /\ pc' \notin {"patch", "recurring_patch"}
         /\ (pc = "create" => event_id' = DryRunId /\ pc' = "page_ok")
         /\ (pc = "update" => event_id' = existing_event_id /\ pc' = "page_ok")
         /\ (pc = "occurrence" /\ InHorizon =>
                event_id' = DryRunId /\ events_created' = events_created + 1)
      ]_vars

\* a dry run expands the second page of its batch into several occurrences
C1_Witness ==
    /\ DRY_RUN /\ idx = 2 /\ pc = "occurrence"
    /\ events_created > 1 /\ event_id = DryRunId

\* C2 as claimed (SpecTwice): the second live run on an explicit-date page
\* that holds a linked event id issues exactly one update and no create.
C2_Original ==
    (run = 2 /\ pc = "page_ok" /\ Dated /\ existing_event_id # NoId) =>
        updates = 1 /\ inserts = 0

\* C2 amended (SpecTwice): the second live run issues exactly one update;
\* it issues no create, and leaves the stored id alone, when the update is
\* answered without error, and at most one create, only when the update is
\* answered by an HttpError whose text contains "404".
C2_SecondRunUpdates ==
    (run = 2 /\ pc = "page_ok" /\ Dated /\ existing_event_id # NoId) =>
        /\ updates = 1
        /\ inserts <= 1
        /\ (update_answer.kind = "ok" =>
                inserts = 0 /\ Stored = <<existing_event_id>>)
        /\ (inserts = 1 =>
                /\ update_answer.kind = "http"
                /\ (update_answer.status = 404 \/ update_answer.text404))

\* the second run updates the event the first run created
C2_Witness ==
    /\ run = 2 /\ pc = "page_ok" /\ Dated
    /\ existing_event_id = EventId(1, 1, 1)
    /\ updates = 1 /\ inserts = 0 /\ update_answer.kind = "ok"

\* C3 as claimed: after a live expansion of more than one occurrence the
\* page holds the id of the first event created.
C3_Original ==
    (~DRY_RUN /\ pc = "page_ok" /\ Recurring /\ inserts > 1 /\ inserted >= 1) =>
        Stored = <<FirstId>>

\* C3 amended: after a live expansion of more than one occurrence exactly
\* one write-back was issued, for the first event created; the page holds
\* that id when Notion accepted the write and what it held before when
\* Notion refused it; no later id is ever written.
C3_FirstIdOnly ==
    (~DRY_RUN /\ pc = "page_ok" /\ Recurring /\ inserts > 1 /\ inserted >= 1) =>
        /\ patches = 1
        /\ (patch_answer = "ok" => Stored = <<FirstId>>)
        /\ (patch_answer = "error" => Stored = Queried)

\* some creations failed, several events were created: the page holds the
\* first id, not the last
C3_Witness ==
    /\ ~DRY_RUN /\ pc = "page_ok" /\ Recurring
    /\ inserted > 1 /\ inserts > inserted
    /\ Stored = <<FirstId>> /\ event_id # FirstId

\* C4: a page holds zero or one linked event id, and at most one write-back
\* is issued while a page is synced.
C4_AtMostOneBackReference ==
    /\ \A p \in PageIds : Len(store[p]) <= 1
    /\ patches <= 1

\* an expansion with failures wrote back once
C4_Witness ==
    /\ pc = "page_ok" /\ Recurring /\ inserts > 2 /\ errors > 0
    /\ patches = 1 /\ Len(Stored) = 1

\* C5 as claimed: a page with an explicit date stays on the explicit-date
\* path and issues at most one calendar call, a create or an update.
C5_Original ==
    Dated =>
        /\ pc \in {"update", "create", "patch", "page_ok"}
        /\ today = NoTime /\ events_created = 0
        /\ inserts + updates <= 1

\* C5 amended: a page with an explicit date stays on the explicit-date
\* path and issues at most one update and at most one create; it issues
\* both only when the update is answered by an HttpError whose text
\* contains "404".
C5_DatedNeverExpands ==
    Dated =>
        /\ pc \in {"update", "create", "patch", "page_ok"}
        /\ today = NoTime /\ events_created = 0
        /\ inserts <= 1 /\ updates <= 1
        /\ (inserts + updates = 2 =>
                /\ update_answer.kind = "http"
                /\ (update_answer.status = 404 \/ update_answer.text404))

\* a dated page that also carries days, a time slot and Daily
C5_Witness ==
    /\ ~DRY_RUN /\ pc = "page_ok" /\ Dated
    /\ page.days # <<>> /\ page.time_slot # <<>> /\ page.frequency = "Daily"
    /\ inserts = 1 /\ updates = 0

\* C6 as claimed: live, explicit date, no linked id: exactly one create, no
\* update, and the page then holds the id the create returned.
C6_Original ==
    (~DRY_RUN /\ pc = "page_ok" /\ Dated /\ existing_event_id = NoId) =>
        /\ inserts = 1 /\ updates = 0
        /\ (inserted = 1 => Stored = <<event_id>>)

\* C6 amended: live, explicit date, no linked id: exactly one create and
\* no update; when the create returns an id one write-back is issued, and
\* the page holds that id when Notion accepted the write and still none
\* when Notion refused it; when the create fails nothing is written.
C6_CreateAndStore ==
    (~DRY_RUN /\ pc = "page_ok" /\ Dated /\ existing_event_id = NoId) =>
        /\ inserts = 1 /\ updates = 0
        /\ (inserted = 1 =>
                /\ patches = 1 /\ event_id = FirstId
                /\ (patch_answer = "ok" => Stored = <<event_id>>)
                /\ (patch_answer = "error" => Stored = <<>>))
        /\ (inserted = 0 => patches = 0 /\ Stored = <<>>)

\* the create succeeded and its id is on the page
C6_Witness ==
    /\ ~DRY_RUN /\ pc = "page_ok" /\ Dated /\ existing_event_id = NoId
    /\ inserts = 1 /\ Stored = <<FirstId>>

\* C7 as claimed: live, the update is answered not-found: exactly one
\* create, and the page then holds the new id in place of the stale one.
C7_Original ==
    (~DRY_RUN /\ pc = "page_ok" /\ Dated /\ UpdateNotFound) =>
        /\ inserts = 1
        /\ Stored = <<FirstId>> /\ FirstId # existing_event_id

\* C7 amended: live, the update is answered not-found: exactly one create
\* follows the one update; the new id replaces the stale one when the
\* create returns an id and Notion accepts the write-back; the stale id
\* stays when the create fails or Notion refuses the write-back.
C7_FallbackCreate ==
    (~DRY_RUN /\ pc = "page_ok" /\ Dated /\ UpdateNotFound) =>
        /\ updates = 1 /\ inserts = 1
        /\ patches = inserted
        /\ (inserted = 1 /\ patch_answer = "ok" =>
                /\ Stored = <<event_id>>
                /\ event_id = FirstId /\ event_id # existing_event_id)
        /\ (inserted = 0 \/ patch_answer = "error" =>
                Stored = <<existing_event_id>>)

\* the stale id was replaced by the id of the event created instead
C7_Witness ==
    /\ ~DRY_RUN /\ pc = "page_ok" /\ Dated /\ UpdateNotFound
    /\ Stored = <<FirstId>> /\ existing_event_id # FirstId

\* C8: live, the update of an explicit-date page is answered by a failure
\* other than not-found: the failure is logged, no create is issued, the
\* update is not repeated and the page keeps the id it held.
C8_OtherFailureNoCreate ==
    (~DRY_RUN /\ pc = "page_ok" /\ Dated /\ UpdateOtherFailure) =>
        /\ updates = 1 /\ inserts = 0
        /\ errors >= 1
        /\ Stored = Queried

\* C9: a page without date that lacks its days or its time slot goes
\* straight to the end of sync_page with no calendar call, no write-back
\* and no error, and run_sync then counts it in success_count.
C9_IncompleteSkipped ==
    [][/\ Incomplete' =>
            /\ pc' = "page_ok"
            /\ inserts' = 0 /\ updates' = 0 /\ patches' = 0 /\ errors' = 0
            /\ store' = store
       /\ Incomplete =>
            /\ pc' = "loop"
            /\ success_count' = success_count + 1
            /\ error_count' = error_count
            /\ store' = store
      ]_vars

\* a live run skips a Daily page that has its days but no time slot
C9_Witness ==
    /\ ~DRY_RUN /\ pc = "page_ok" /\ Incomplete
    /\ page.days # <<>> /\ page.time_slot = <<>> /\ page.frequency = "Daily"

\* C10 as claimed (SpecRecurring): no occurrence lies before the instant
\* datetime.now() returned, and none after December 31 of its year.
C10_Original ==
    event_datetime # NoTime =>
        /\ DtLeq(today, event_datetime)
        /\ event_datetime.ord <= Ymd2Ord(OrdYear(today.ord), 12, 31)

\* C10 amended (SpecRecurring): no occurrence lies on a date before the
\* date of datetime.now(), and none on a date after December 31 of its
\* year; on the date of now itself the occurrence keeps the time slot, which
\* may be earlier than now.
C10_DatesWithinHorizon ==
    event_datetime # NoTime =>
        /\ today.ord <= event_datetime.ord
        /\ event_datetime.ord <= Ymd2Ord(OrdYear(today.ord), 12, 31)

\* an expansion reached December 31
C10_Witness ==
    /\ events_created > 1
    /\ event_datetime.ord = Ymd2Ord(Year, 12, 31)

\* C11 (SpecRecurring): whenever the stepping sequence of a record stands on
\* December 31 of the year of datetime.now(), the next step of the expansion
\* creates the event of December 31 (the loop body is entered), whatever
\* the time of day of datetime.now().
C11_Dec31Included ==
    [][(pc = "occurrence" /\ current.ord = Ymd2Ord(OrdYear(today.ord), 12, 31))
          => /\ pc' \in {"occurrence", "recurring_patch"}
             /\ event_datetime' = ReplaceTime(current, slot.hour, slot.minute)
      ]_vars

\* C12 (SpecParse): parse_time_slot accepts a string exactly when it has 4
\* characters, all of them decimal digits, its first two reading as an hour
\* in 0..23 and its last two as a minute in 0..59, and then returns that
\* hour and that minute; for every other string it raises ValueError and
\* returns nothing, and sync_page_with_recurring returns at once.
C12_ParseTimeSlot ==
    pc # "recurring" =>
        LET s == page.time_slot
            valid ==
                /\ Len(s) = 4
                /\ \A i \in 1..4 : s[i] \in DecimalDigits
                /\ 10 * DigitVal(s[1]) + DigitVal(s[2]) \in 0..23
                /\ 10 * DigitVal(s[3]) + DigitVal(s[4]) \in 0..59
        IN  /\ slot.ok <=> valid
            /\ valid => /\ slot.hour = 10 * DigitVal(s[1]) + DigitVal(s[2])
                        /\ slot.minute = 10 * DigitVal(s[3]) + DigitVal(s[4])
            /\ ~valid => slot = ParseError /\ pc = "page_ok" /\ today = NoTime

\* "0600" was parsed as 6 hours 0 minutes
C12_Witness ==
    /\ pc = "day"
    /\ page.time_slot = <<"0", "6", "0", "0">>
    /\ slot = [ok |-> TRUE, hour |-> 6, minute |-> 0]

\* C13 as claimed (SpecSeries): for a Weekly record whose target weekday
\* differs from the weekday of the anchor, the first occurrence is the
\* nearest following date with the target weekday; for an anchor that is a
\* Wednesday and the target Monday it is the Monday 4 days after the anchor.
C13_Original ==
    [][(/\ pc = "day" /\ pc' = "occurrence" /\ page.frequency = "Weekly"
        /\ Weekday(today.ord) # Target)
          => /\ current'.ord - today.ord \in 1..6
             /\ Weekday(current'.ord) = Target
             /\ (Weekday(today.ord) = 2 /\ DayName(page.days[day]) = "Monday"
                    => current'.ord = today.ord + 4 /\ Weekday(current'.ord) = 0)
      ]_vars

\* C13 amended (SpecSeries): for a Weekly record whose target weekday
\* differs from the weekday of the anchor, the first occurrence is the
\* nearest following date with the target weekday, 1 to 6 days after the
\* anchor; for an anchor that is a Wednesday and the target Monday it is the
\* Monday 5 days after the anchor.
C13_FirstOccurrence ==
    [][(/\ pc = "day" /\ pc' = "occurrence" /\ page.frequency = "Weekly"
        /\ Weekday(today.ord) # Target)
          => /\ current'.ord - today.ord \in 1..6
             /\ Weekday(current'.ord) = Target
             /\ (Weekday(today.ord) = 2 /\ DayName(page.days[day]) = "Monday"
                    => current'.ord = today.ord + 5 /\ Weekday(current'.ord) = 0)
      ]_vars

\* a Weekly record of Mondays was anchored on a Wednesday: its first
\* occurrence stands 5 days later
C13_Witness ==
    /\ pc = "occurrence" /\ inserts = 0 /\ page.frequency = "Weekly"
    /\ Weekday(today.ord) = 2 /\ page.days = << <<"Monday">> >>
    /\ current.ord = today.ord + 5

\* C14 (SpecSeries): for every frequency but Daily, every anchor and every
\* target weekday, the alignment loop takes (target - anchor weekday) mod 7
\* one-day steps, at most 6, and ends on the target weekday at the time of
\* day of the anchor; when the anchor already has the target weekday the
\* first occurrence is the anchor itself.
C14_AlignmentBounded ==
    [][(pc = "day" /\ pc' = "occurrence")
          => /\ current'.ord - today.ord = (Target - Weekday(today.ord) + 7) % 7
             /\ current'.ord - today.ord \in 0..6
             /\ current'.tod = today.tod
             /\ Weekday(current'.ord) = Target
             /\ (Weekday(today.ord) = Target => current' = today)
      ]_vars

\* a Monthly record anchored on its own weekday starts on the anchor
C14_Witness ==
    /\ pc = "occurrence" /\ inserts = 0 /\ page.frequency = "Monthly"
    /\ Weekday(today.ord) = Target /\ current = today

\* C15 (SpecRecurring): within one series of an expansion (the Daily loop,
\* or the loop of one weekday) every occurrence is created on the date
\* current stands on, and current then moves by exactly 1 day for Daily, 7
\* days for Weekly, 14 days for Bi-Weekly, and 7 days for an absent
\* frequency and for a label the program does not know, keeping its time of
\* day, whether the creation succeeded or failed.
C15_FixedSteps ==
    [][/\ (pc = "occurrence" /\ pc' \in {"occurrence", "recurring_patch"})
            => event_datetime' = ReplaceTime(current, slot.hour, slot.minute)
       /\ (/\ pc \in {"occurrence", "recurring_patch"} /\ pc' = "occurrence"
           /\ page.frequency \notin {"Monthly", "Bi-Monthly"})
            => /\ current'.tod = current.tod
               /\ current'.ord - current.ord =
                     CASE page.frequency = "Daily" -> 1
                       [] page.frequency = "Weekly" -> 7
                       [] page.frequency = "Bi-Weekly" -> 14
                       [] OTHER -> 7
      ]_vars

\* a record with a frequency label the program does not know: its second
\* occurrence is due 7 days after the first
C15_Witness ==
    /\ pc = "occurrence" /\ page.frequency = "Yearly" /\ inserts = 1
    /\ current.ord = event_datetime.ord + 7 /\ InHorizon

\* C16 (SpecSeries): every occurrence of a Monthly (Bi-Monthly) series
\* falls a whole number of months (of pairs of months) after the first
\* occurrence, on the day of month of the first occurrence, or on the last
\* day of its month when the month is shorter.
C16_PreservesDayOfMonth ==
    (/\ pc \in {"occurrence", "recurring_patch"}
     /\ page.frequency \in {"Monthly", "Bi-Monthly"}
     /\ event_datetime # NoTime)
        => LET first  == AlignWeekday(today, Target).ord
               this   == event_datetime.ord
               months == (12 * OrdYear(this) + OrdMonth(this))
                         - (12 * OrdYear(first) + OrdMonth(first))
           IN  /\ months >= 0
               /\ page.frequency = "Bi-Monthly" => months % 2 = 0
               /\ OrdDay(this) =
                     Min(OrdDay(first),
                         DaysInMonth(OrdYear(this), OrdMonth(this)))

\* C17: run_sync takes the records of the batch one by one in query order,
\* each exactly once: between two records success_count + error_count is
\* the number of records taken so far, an exception escaping sync_page adds
\* one to error_count and the loop goes on with the next record, and when
\* run_sync returns success_count + error_count is the number of records of
\* the batch.
C17_BatchCompletes ==
    [][/\ idx' \in 0..Len(pages')
       /\ (pc' = "loop" => success_count' + error_count' = idx')
       /\ (pc' \notin {"idle", "loop"} =>
              idx' >= 1 /\ success_count' + error_count' = idx' - 1)
       /\ (pc' = "idle" =>
              idx' = Len(pages') /\ success_count' + error_count' = Len(pages'))
       /\ (pc = "loop" /\ pc' = "sync_page" =>
              idx' = idx + 1 /\ pages'[idx'].id = idx')
       /\ (pc # "idle" => pages' = pages /\ idx' \in {idx, idx + 1})
       /\ (pc = "page_err" =>
              /\ pc' = "loop" /\ idx' = idx
              /\ error_count' = error_count + 1
              /\ success_count' = success_count)
      ]_vars

\* the first record of a live batch failed and the second one got its event
C17_Witness ==
    /\ ~DRY_RUN /\ pc = "page_ok" /\ idx = 2
    /\ error_count = 1 /\ success_count = 0 /\ inserted = 1

\* C18 (SpecRecurring): when the live expansion of a recurring record is
\* over, the number of create attempts is the number of occurrences of the
\* record in the horizon (from the date of now to December 31 included),
\* whichever attempts failed.
C18_AttemptsAllOccurrences ==
    (~DRY_RUN /\ pc = "page_ok" /\ Recurring /\ today # NoTime)
        => inserts = OccurrencesInHorizon

\* C19: a record on the recurrence path whose time slot is not a valid HHMM
\* string leaves sync_page_with_recurring at once: no calendar call, no
\* write-back, no error, the clock is not even read; sync_page returns
\* normally, run_sync counts the record in success_count and goes on with
\* the loop.
C19_InvalidSlotSkipped ==
    [][/\ (Recurring' /\ ~ValidHHMM(page'.time_slot)) =>
            /\ pc' \in {"recurring", "page_ok"}
            /\ inserts' = 0 /\ updates' = 0 /\ patches' = 0 /\ errors' = 0
            /\ store' = store
            /\ today' = NoTime /\ events_created' = 0
       /\ (Recurring /\ ~ValidHHMM(page.time_slot) /\ pc = "page_ok") =>
            /\ pc' = "loop" /\ idx' = idx /\ pages' = pages
            /\ success_count' = success_count + 1
            /\ error_count' = error_count
            /\ store' = store
      ]_vars

\* the first record of a live batch of two has the time slot "2400"
C19_Witness ==
    /\ ~DRY_RUN /\ pc = "page_ok" /\ Recurring
    /\ page.time_slot = <<"2", "4", "0", "0">>
    /\ idx = 1 /\ Len(pages) = 2

\* C20 (SpecDriver): when run_sync is given max_pages = N, an integer, the
\* pages it syncs are the first N of the queried pages in query order (all
\* of them when fewer than N were queried, none when N is not positive);
\* without max_pages they are all the queried pages.
C20_MaxPagesCaps ==
    run >= 1 =>
        IF max_pages.none
        THEN pages = queried_pages
        ELSE /\ Len(pages) <= (IF max_pages.n > 0 THEN max_pages.n ELSE 0)
             /\ pages = SubSeq(queried_pages, 1,
                               Min(IF max_pages.n > 0 THEN max_pages.n ELSE 0,
                                   Len(queried_pages)))

\* C21: for a page whose title property is stored under the key "Name",
\* extract_title returns the plain_text of the first title element when it
\* is non-empty, otherwise that element's text.content; it returns
\* "(untitled)" when the title list is empty and "(no title property)" when
\* the page has no title property.
C21_ExtractTitle ==
    pc = "page_ok" /\ "properties" \in DOMAIN pages[idx] =>
        LET properties == pages[idx].properties
        IN  /\ DOMAIN properties = {} => page.title = "(no title property)"
            /\ "Name" \in DOMAIN properties /\ ~properties["Name"].falsy =>
                  LET title == properties["Name"].title
                  IN  IF title = <<>> THEN page.title = "(untitled)"
                      ELSE IF title[1].plain_text \notin {Absent, ""}
                      THEN page.title = title[1].plain_text
                      ELSE title[1].content # Absent =>
                              page.title = title[1].content

\* the program was ended by an interrupt
Interrupted == pc \in {InterruptedAt[q] : q \in DOMAIN InterruptedAt}

\* no calendar call and no write-back was issued for the page at hand
Untouched == inserts = 0 /\ updates = 0 /\ patches = 0

\* sync_page had returned or raised for the page at hand, or no page was at
\* hand, when the interrupt arrived
BetweenRecords ==
    pc \in {InterruptedAt["loop"], InterruptedAt["page_ok"],
            InterruptedAt["page_err"]}

\* C22: an interrupt arriving at any point of the batch takes effect only
\* before the next record starts, so every record is either fully reconciled
\* (all its calendar calls and its write-back done) or untouched (no calendar
\* call and no write-back issued for it).
C22_NoMidRecordCancel == Interrupted => BetweenRecords \/ Untouched

\* the dates the stepping sequence from c reaches while c <= end
RECURSIVE CountPasses(_, _, _)
CountPasses(c, frequency, end) ==
    IF DtLeq(c, end)
    THEN 1 + CountPasses(get_next_occurrence(c, frequency), frequency, end)
    ELSE 0

\* the same over the days i.. of the page
RECURSIVE CountDayPasses(_, _)
CountDayPasses(i, end) ==
    IF i > Len(page.days) THEN 0
    ELSE LET weekday_num == DayMapGet(DayName(page.days[i]))
         IN  (IF weekday_num = NoneInt THEN 0
              ELSE CountPasses(AlignWeekday(today, weekday_num),
                               FreqOrWeekly(page.frequency), end))
             + CountDayPasses(i + 1, end)

\* the occurrences the expansion of the page generates from the anchor
\* today: a function of the page's fields and the anchor alone
Occurrences ==
    IF page.frequency = "Daily"
    THEN CountPasses(today, "Daily", EndOfYear(today))
    ELSE CountDayPasses(1, EndOfYear(today))

C24_DelayBetweenRecords == pc = "sync_page" => sleeps = idx - 1

\* the records of the answers i.. in the order of the requests
RECURSIVE Concatenation(_, _)
Concatenation(rs, i) ==
    IF i > Len(rs) THEN <<>> ELSE rs[i].results \o Concatenation(rs, i + 1)

\* query_notion_database has returned
QueryReturned == responses # <<>> /\ pc # "query"

\* C25: the paginated query calls the store repeatedly, passing the previous
\* response's next_cursor (none at first), until the first response whose
\* has_more is false, issues no further query after that response, and
\* returns the concatenation of all responses' records in request order.
C25_PaginatedQuery ==
    /\ Len(requests) = Len(responses)
    /\ \A i \in 1..Len(requests) :
          requests[i] = IF i = 1 THEN NoCursor ELSE responses[i - 1].next_cursor
    /\ \A i \in 1..(Len(responses) - 1) : responses[i].has_more
    /\ pc = "query" /\ responses # <<>> => responses[Len(responses)].has_more
    /\ QueryReturned =>
          /\ ~responses[Len(responses)].has_more
          /\ queried_pages = Concatenation(responses, 1)

\* the query returned after three answers, the last one empty
C25_Witness ==
    /\ QueryReturned
    /\ Len(responses) = 3
    /\ requests = <<NoCursor, 2, 3>>
    /\ queried_pages = <<Record(1), Record(2)>>

\* a pass of the while loop of the series of page.days[day]: an event was
\* built for event_datetime' and its creation succeeded or raised
SeriesPass ==
    /\ pc = "occurrence" /\ page.frequency # "Daily"
    /\ events_created' = events_created + 1 \/ errors' = errors + 1

\* the day loop stands on a label DAY_MAP does not know
UnknownDay == pc = "day" /\ day <= Len(page.days) /\ Target = NoneInt

\* C26: for every frequency but Daily, every occurrence generated for an
\* entry of the days falls on that entry's weekday, an ordinal prefix such as
\* "1-Monday" being resolved to the weekday of "Monday", and an unknown day
\* name produces no occurrence and leaves the record's other days to come.
C26_OccurrencesOnWeekday ==
    [][/\ SeriesPass =>
             Weekday(event_datetime'.ord) = DayMapGet(page.days[day][Len(page.days[day])])
       /\ UnknownDay =>
             /\ pc' = "day" /\ day' = day + 1
             /\ UNCHANGED <<events_created, calls, store>>
      ]_vars

====
